---- MODULE Spec2Model ----
(***************************************************************************)
(* Deferred acceptance with displacement: the core loop of                 *)
(* deferred_acceptance_with_displacement_final4.py and the placement       *)
(* transaction try_place_student_in_course it drives.                      *)
(*                                                                         *)
(* One behaviour is one run of deferred_acceptance_with_displacement on    *)
(* one input (student_marks, course_data, num_preferences); Init draws     *)
(* the input from bounded sets, every later step is one loop iteration.    *)
(***************************************************************************)
EXTENDS Integers, Sequences, FiniteSets, TLC

(***************************************************************************)
(* Bounds of the input space.                                              *)
(***************************************************************************)
MaxScore == 2

\* The roster in input order, the catalog in input order, the preference
\* depth and the subject columns.
StudentOrder == <<"A", "B", "C">>
Students == {StudentOrder[i] : i \in 1..Len(StudentOrder)}
num_preferences == 3

CourseOrder == <<"X", "Y">>
Courses == {CourseOrder[i] : i \in 1..Len(CourseOrder)}
Subjects == {"Math"}

Blank == ""
UnknownCourse == "U"
NoGroup == ""
NoOne == ""

(***************************************************************************)
(* Floats as the code uses them: the numeric scores are 1..MaxScore, NaN   *)
(* and -inf are two values below them with the comparisons of IEEE 754.    *)
(* Unbounded is a capacity of None or infinity, NoLimit a group constraint *)
(* that is absent.                                                         *)
(***************************************************************************)
NaN == -2
NegInf == -1
Unbounded == -1
NoLimit == -1

IsNaN(x) == x = NaN
FLess(a, b) == ~IsNaN(a) /\ ~IsNaN(b) /\ a < b
FGreater(a, b) == ~IsNaN(a) /\ ~IsNaN(b) /\ a > b
FEqual(a, b) == ~IsNaN(a) /\ ~IsNaN(b) /\ a = b
FGeq(a, b) == ~IsNaN(a) /\ ~IsNaN(b) /\ a >= b
FLeq(a, b) == ~IsNaN(a) /\ ~IsNaN(b) /\ a <= b

(***************************************************************************)
(* A spreadsheet cell: a number, a string that spells a number ("  2 "), a *)
(* text marker such as "ABS", or nothing (None, a blank cell).             *)
(***************************************************************************)
Num(n) == [k |-> "num", v |-> n]
NumStr(n) == [k |-> "numstr", v |-> n]
Text == [k |-> "text", v |-> 0]
None == [k |-> "none", v |-> 0]

\* float(x) succeeds on a number and on a string that spells one; None, a
\* blank and every other string give NaN.
_to_num(x) == IF x.k \in {"num", "numstr"} THEN x.v ELSE NaN

\* Variant: a score that is not numeric passes the criterion.
compare_subject_score_FailOpen(student_score, inequality, value) ==
    LET s == _to_num(student_score)
        v == _to_num(value)
    IN  IF IsNaN(s) \/ IsNaN(v) THEN TRUE
        ELSE IF inequality = ">=" THEN FGeq(s, v)
        ELSE IF inequality = "<=" THEN FLeq(s, v)
        ELSE FALSE

compare_subject_score(student_score, inequality, value) ==
    LET s == _to_num(student_score)
        v == _to_num(value)
    IN  IF IsNaN(s) \/ IsNaN(v) THEN FALSE
        ELSE IF inequality = ">=" THEN FGeq(s, v)
        ELSE IF inequality = "<=" THEN FLeq(s, v)
        ELSE FALSE


(***************************************************************************)
(* Python lists and dicts.                                                 *)
(***************************************************************************)
Contains(seq, x) == \E i \in 1..Len(seq) : seq[i] = x
Range(seq) == {seq[i] : i \in 1..Len(seq)}

FirstIndex(seq, x) == CHOOSE i \in 1..Len(seq) : seq[i] = x /\ \A j \in 1..(i - 1) : seq[j] # x

\* list.remove(x): drops the first occurrence of x.
ListRemove(seq, x) ==
    LET i == FirstIndex(seq, x)
    IN  SubSeq(seq, 1, i - 1) \o SubSeq(seq, i + 1, Len(seq))

EmptyDict == [x \in {} |-> 0]
DictGet(d, key, default) == IF key \in DOMAIN d THEN d[key] ELSE default
DictPut(d, key, val) == [x \in (DOMAIN d) \cup {key} |-> IF x = key THEN val ELSE d[x]]
DictDel(d, key) == [x \in (DOMAIN d) \ {key} |-> d[x]]

\* Tuple comparison of Python: the first differing position decides.
TupleLess(a, b) ==
    \E i \in 1..Len(a) : /\ i <= Len(b)
                         /\ \A j \in 1..(i - 1) : a[j] = b[j]
                         /\ a[i] < b[i]

TupleGreater(a, b) == TupleLess(b, a)

(***************************************************************************)
(* Helpers of try_place_student_in_course.                                 *)
(***************************************************************************)
_safe_tie_score(x) == IF IsNaN(_to_num(x)) THEN NegInf ELSE _to_num(x)

\* Variant: a Total Score that is not numeric reads as a score above all.
_total_score_MissingOnTop(marks, name) ==
    IF IsNaN(_to_num(marks[name].total)) THEN MaxScore + 1 ELSE _to_num(marks[name].total)

_total_score(marks, name) == _to_num(marks[name].total)

\* Variant: a subject the score map does not have reads as 0.
ScoreOf_DefaultZero(marks, name, subject) ==
    IF subject \in DOMAIN marks[name].scores THEN marks[name].scores[subject] ELSE Num(0)

\* "student_marks[name].get(subject, None)": a subject the score map does
\* not have reads as None.
ScoreOf(marks, name, subject) ==
    IF subject \in DOMAIN marks[name].scores THEN marks[name].scores[subject] ELSE None

TieTuple(marks, name, tiebreaker_subjects) ==
    [i \in 1..Len(tiebreaker_subjects) |->
        _safe_tie_score(ScoreOf(marks, name, tiebreaker_subjects[i]))]

\* min(seq, key = _total_score): the running minimum is replaced only by an
\* element whose key compares strictly less, so a NaN key never replaces it
\* and a NaN key in first place is never replaced.
RECURSIVE MinTotalFrom(_, _, _, _)
MinTotalFrom(marks, seq, i, cur) ==
    IF i > Len(seq) THEN cur
    ELSE IF FLess(_total_score(marks, seq[i]), _total_score(marks, cur))
         THEN MinTotalFrom(marks, seq, i + 1, seq[i])
         ELSE MinTotalFrom(marks, seq, i + 1, cur)

LowestByTotal(marks, all_group_students) ==
    MinTotalFrom(marks, all_group_students, 2, all_group_students[1])

RECURSIVE MinTieFrom(_, _, _, _, _)
MinTieFrom(marks, subjects, seq, i, cur) ==
    IF i > Len(seq) THEN cur
    ELSE IF TupleLess(TieTuple(marks, seq[i], subjects), TieTuple(marks, cur, subjects))
         THEN MinTieFrom(marks, subjects, seq, i + 1, seq[i])
         ELSE MinTieFrom(marks, subjects, seq, i + 1, cur)

LowestByTiebreak(marks, subjects, all_group_students) ==
    MinTieFrom(marks, subjects, all_group_students, 2, all_group_students[1])

\* The placement state handed to and returned by try_place: the two maps,
\* the group tracker and the unplaced list.
PState(cm, sca, gct, unp) == [cm |-> cm, sca |-> sca, gct |-> gct, unp |-> unp]

_place_into(st, student_name, course_to_place) ==
    LET cur == DictGet(st.cm, course_to_place, <<>>)
        lst == IF Contains(cur, student_name) THEN cur ELSE Append(cur, student_name)
    IN  [st EXCEPT !.cm = DictPut(st.cm, course_to_place, lst),
                   !.sca = DictPut(st.sca, student_name, course_to_place)]

_remove_from_course(st, student_to_remove) ==
    LET prev == DictGet(st.sca, student_to_remove, Blank)
        cm1 == IF prev # Blank /\ prev \in DOMAIN st.cm /\ Contains(st.cm[prev], student_to_remove)
               THEN DictPut(st.cm, prev, ListRemove(st.cm[prev], student_to_remove))
               ELSE st.cm
    IN  [st EXCEPT !.cm = cm1, !.sca = DictDel(st.sca, student_to_remove)]

\* "if assigned to another course: _remove_from_course(student_name)"
DetachIfElsewhere(st, student_name, preferred_course) ==
    IF DictGet(st.sca, student_name, Blank) # Blank /\ st.sca[student_name] # preferred_course
    THEN _remove_from_course(st, student_name)
    ELSE st

\* "if student_name in unplaced_students: unplaced_students.remove(student_name)"
DropFromUnplaced(st, student_name) ==
    IF Contains(st.unp, student_name)
    THEN [st EXCEPT !.unp = ListRemove(st.unp, student_name)]
    ELSE st

MeetsCriteria(marks, student_name, course_info) ==
    \A i \in 1..Len(course_info.subject_criteria) :
        LET crit == course_info.subject_criteria[i]
        IN  compare_subject_score(ScoreOf(marks, student_name, crit[1]), crit[2], crit[3])

\* The standalone check: a course the catalog does not have fails, and a
\* subject the score map does not have reads as the number 0
\* ("student_marks[student_name].get(subject, 0)").
student_meets_course_criteria(student_name, marks, preferred_course, cdata) ==
    IF preferred_course \notin DOMAIN cdata THEN FALSE
    ELSE \A i \in 1..Len(cdata[preferred_course].subject_criteria) :
            LET crit == cdata[preferred_course].subject_criteria[i]
            IN  compare_subject_score(DictGet(marks[student_name].scores, crit[1], Num(0)),
                                      crit[2], crit[3])

\* Variant: the course counts as full one seat early.
CourseIsFull_Early(capacity, current_students) ==
    capacity # Unbounded /\ Len(current_students) + 1 >= capacity

\* Variant: an ungrouped course never counts as full.
CourseIsFull_Never(capacity, current_students) == FALSE

\* cap_val: None (no cap) when the capacity is absent or infinite.
CourseIsFull(capacity, current_students) ==
    capacity # Unbounded /\ Len(current_students) >= capacity

GroupCourses(cdata, group_name) ==
    SelectSeq(CourseOrder, LAMBDA c : cdata[c].group = group_name)

RECURSIVE InitGroupKeys(_, _, _)
InitGroupKeys(cm, group_courses, i) ==
    IF i > Len(group_courses) THEN cm
    ELSE InitGroupKeys(IF group_courses[i] \in DOMAIN cm THEN cm
                       ELSE DictPut(cm, group_courses[i], <<>>),
                       group_courses, i + 1)

RECURSIVE AllGroupStudents(_, _, _)
AllGroupStudents(cm, group_courses, i) ==
    IF i > Len(group_courses) THEN <<>>
    ELSE DictGet(cm, group_courses[i], <<>>) \o AllGroupStudents(cm, group_courses, i + 1)

\* Variant: the group takes one student more than its limit.
GroupHasRoom_OffByOne(group_limit, total_group_students) ==
    group_limit = NoLimit \/ total_group_students <= group_limit

GroupHasRoom(group_limit, total_group_students) ==
    group_limit = NoLimit \/ total_group_students < group_limit

\* Variant: the displaced student loses the assignment entry but stays in
\* the course list.
RemoveDisplaced_KeepsListed(st, group_courses, i, lowest) ==
    [st EXCEPT !.sca = DictDel(st.sca, lowest)]

\* The eviction loop: the displaced student leaves the first group course
\* that lists them and loses their assignment entry.
RECURSIVE RemoveDisplaced(_, _, _, _)
RemoveDisplaced(st, group_courses, i, lowest) ==
    IF i > Len(group_courses) THEN st
    ELSE IF Contains(DictGet(st.cm, group_courses[i], <<>>), lowest)
         THEN [st EXCEPT !.cm = DictPut(st.cm, group_courses[i],
                                        ListRemove(st.cm[group_courses[i]], lowest)),
                         !.sca = DictDel(st.sca, lowest)]
         ELSE RemoveDisplaced(st, group_courses, i + 1, lowest)

\* Variant: the challenger is recorded in the assignment map but not
\* appended to the course list.
AttachChallenger_NotListed(st, student_name, preferred_course, lowest) ==
    [st EXCEPT !.sca = DictPut(st.sca, student_name, preferred_course),
               !.unp = Append(st.unp, lowest)]

\* Variant: the challenger is appended to the course list but the
\* assignment map is not written.
AttachChallenger_ListOnly(st, student_name, preferred_course, lowest) ==
    [st EXCEPT !.cm = DictPut(st.cm, preferred_course,
                              Append(DictGet(st.cm, preferred_course, <<>>), student_name)),
               !.unp = Append(st.unp, lowest)]

\* The challenger's side of a displacement: detach, append, record; the
\* evicted student is appended to the unplaced list.
AttachChallenger(st, student_name, preferred_course, lowest) ==
    LET st1 == DetachIfElsewhere(st, student_name, preferred_course)
    IN  [st1 EXCEPT !.cm = DictPut(st1.cm, preferred_course,
                                   Append(DictGet(st1.cm, preferred_course, <<>>), student_name)),
                    !.sca = DictPut(st1.sca, student_name, preferred_course),
                    !.unp = Append(st1.unp, lowest)]

DisplacesOnTotal(candidate_total, lowest_total) == FGreater(candidate_total, lowest_total)

TiesOnTotal(candidate_total, lowest_total) == FEqual(candidate_total, lowest_total)

DisplacesOnTiebreak(candidate_tuple, lowest_tuple) == TupleGreater(candidate_tuple, lowest_tuple)

Outcome(result, displaced, reason, cohort, st) ==
    [result |-> result, displaced |-> displaced, reason |-> reason, cohort |-> cohort, st |-> st]


(***************************************************************************)
(* try_place_student_in_course.  result is "True", "False" or "Displaced"  *)
(* (the code returns the evicted student's name; it is in `displaced`).    *)
(* cohort is the call's all_group_students, st the state it leaves.        *)
(***************************************************************************)
\* Variant: the student is appended before the capacity is looked at.
PlaceUngrouped_AppendThenCheck(student_name, preferred_course, course_info, st) ==
    LET st1 == _place_into(DetachIfElsewhere(st, student_name, preferred_course),
                           student_name, preferred_course)
    IN  IF CourseIsFull(course_info.capacity, DictGet(st.cm, preferred_course, <<>>))
        THEN Outcome("False", NoOne, "course full", <<>>, st1)
        ELSE Outcome("True", NoOne, "placed", <<>>, DropFromUnplaced(st1, student_name))

\* --------------- non-grouped capacity placement ---------------
PlaceUngrouped(student_name, preferred_course, course_info, st) ==
    IF CourseIsFull(course_info.capacity, DictGet(st.cm, preferred_course, <<>>))
    THEN Outcome("False", NoOne, "course full", <<>>, st)
    ELSE Outcome("True", NoOne, "placed", <<>>,
                 DropFromUnplaced(
                     _place_into(DetachIfElsewhere(st, student_name, preferred_course),
                                 student_name, preferred_course),
                     student_name))

\* Group is full: consider displacement.
ConsiderDisplacement(marks, student_name, preferred_course, course_info, group_courses, all_group_students, st) ==
    IF Len(all_group_students) = 0
    THEN Outcome("False", NoOne, "empty group", all_group_students, st)
    ELSE
    LET lowest_merit_student == LowestByTotal(marks, all_group_students)
        candidate_total == _total_score(marks, student_name)
        lowest_total == _total_score(marks, lowest_merit_student)
        tiebreaker_subjects == course_info.tiebreaker_subjects
    IN  IF IsNaN(candidate_total)
        THEN Outcome("False", NoOne, "candidate total not numeric", all_group_students, st)
        ELSE IF DisplacesOnTotal(candidate_total, lowest_total)
        THEN Outcome("Displaced", lowest_merit_student, "total", all_group_students,
                     AttachChallenger(RemoveDisplaced(st, group_courses, 1, lowest_merit_student),
                                      student_name, preferred_course, lowest_merit_student))
        ELSE IF TiesOnTotal(candidate_total, lowest_total)
        THEN IF Len(tiebreaker_subjects) > 0
             THEN LET lowest2 == LowestByTiebreak(marks, tiebreaker_subjects, all_group_students)
                      candidate_tuple == TieTuple(marks, student_name, tiebreaker_subjects)
                      lowest_tuple == TieTuple(marks, lowest2, tiebreaker_subjects)
                  IN  IF DisplacesOnTiebreak(candidate_tuple, lowest_tuple)
                      THEN Outcome("Displaced", lowest2, "tiebreak", all_group_students,
                                   AttachChallenger(RemoveDisplaced(st, group_courses, 1, lowest2),
                                                    student_name, preferred_course, lowest2))
                      ELSE Outcome("False", NoOne, "tiebreak lost", all_group_students, st)
             ELSE Outcome("False", NoOne, "tie, no tiebreakers", all_group_students, st)
        ELSE Outcome("False", NoOne, "no advantage", all_group_students, st)

\* --------------- group-constrained logic ---------------
PlaceGrouped(marks, cdata, student_name, preferred_course, course_info, st0) ==
    LET group_name == course_info.group
        group_courses == GroupCourses(cdata, group_name)
        st == [st0 EXCEPT !.cm = InitGroupKeys(st0.cm, group_courses, 1)]
        group_limit == course_info.group_constraint
        all_group_students == AllGroupStudents(st.cm, group_courses, 1)
        total_group_students == Len(all_group_students)
    IN  IF GroupHasRoom(group_limit, total_group_students)
        THEN LET st1 == _place_into(DetachIfElsewhere(st, student_name, preferred_course),
                                    student_name, preferred_course)
                 st2 == IF group_limit # NoLimit
                        THEN [st1 EXCEPT !.gct = DictPut(st1.gct, group_name, total_group_students + 1)]
                        ELSE st1
             IN  Outcome("True", NoOne, "placed", all_group_students,
                         DropFromUnplaced(st2, student_name))
        ELSE ConsiderDisplacement(marks, student_name, preferred_course, course_info,
                                  group_courses, all_group_students, st)

try_place_student_in_course(student_name, marks, preferred_course, cdata, st) ==
    IF preferred_course \notin DOMAIN cdata
    THEN Outcome("False", NoOne, "unknown course", <<>>, st)
    ELSE LET course_info == cdata[preferred_course]
         IN  IF ~MeetsCriteria(marks, student_name, course_info)
             THEN Outcome("False", NoOne, "criteria", <<>>, st)
             ELSE IF course_info.group = NoGroup
             THEN PlaceUngrouped(student_name, preferred_course, course_info, st)
             ELSE PlaceGrouped(marks, cdata, student_name, preferred_course, course_info, st)


(***************************************************************************)
(* State of deferred_acceptance_with_displacement.  student_marks and      *)
(* course_data are the inputs; last records what the latest loop iteration *)
(* did and attempts counts the calls of try_place_student_in_course.       *)
(***************************************************************************)
VARIABLES student_marks, course_data,
          course_matches, student_course_assignment, group_capacity_tracker,
          unplaced_students, displaced_students_queue, students_to_process,
          preference_tracker, last, attempts

inputs == <<student_marks, course_data>>
placement == <<course_matches, student_course_assignment, group_capacity_tracker,
               unplaced_students>>
vars == <<student_marks, course_data,
          course_matches, student_course_assignment, group_capacity_tracker,
          unplaced_students, displaced_students_queue, students_to_process,
          preference_tracker, last, attempts>>

(***************************************************************************)
(* The inputs.  A student row: Total Score, the subject scores and the     *)
(* preference columns.  A course row: capacity, group, group constraint,   *)
(* subject criteria and tiebreaker subjects.                               *)
(***************************************************************************)
TotalCells == {None} \cup {Num(n) : n \in 1..MaxScore}
ScoreCells == {Text, Num(1)}

PreferenceLists ==
    { <<"X", "Y", Blank>>, <<"Y", "X", UnknownCourse>>, <<Blank, "X", "Y">> }

StudentRows ==
    { [total |-> t, scores |-> [subj \in Subjects |-> m], prefs |-> p] :
        t \in TotalCells, m \in ScoreCells, p \in PreferenceLists }

GroupLayouts == { <<"G", "G">>, <<NoGroup, "G">> }
Capacities == {1, Unbounded}
GroupConstraints == {1, 2, NoLimit}

CourseRow(capacity, group, group_constraint, criteria, tiebreakers) ==
    [capacity |-> capacity, group |-> group,
     group_constraint |-> IF group = NoGroup THEN NoLimit ELSE group_constraint,
     subject_criteria |-> criteria, tiebreaker_subjects |-> tiebreakers]

Catalogs ==
    { [c \in Courses |->
          IF c = "X" THEN CourseRow(capX, layout[1], quota, << <<"Math", ">=", Num(1)>> >>, <<"Math">>)
                     ELSE CourseRow(Unbounded, layout[2], quota, <<>>, <<>>)] :
        capX \in Capacities, layout \in GroupLayouts, quota \in GroupConstraints }

Idle == [kind |-> "start", student |-> NoOne, pref |-> 0, course |-> Blank,
         displaced |-> NoOne, reason |-> "", cohort |-> <<>>]

Init ==
    /\ student_marks \in [Students -> StudentRows]
    /\ course_data \in Catalogs
    /\ course_matches = EmptyDict
    /\ student_course_assignment = EmptyDict
    /\ group_capacity_tracker = EmptyDict
    /\ unplaced_students = <<>>
    /\ displaced_students_queue = <<>>
    /\ students_to_process = [i \in 1..Len(StudentOrder) |-> <<StudentOrder[i], 1>>]
    /\ preference_tracker = EmptyDict
    /\ last = Idle
    /\ attempts = 0

(***************************************************************************)
(* One iteration of the while loop.                                        *)
(***************************************************************************)
Running == Len(students_to_process) + Len(displaced_students_queue) > 0
Done == ~Running

\* Variant: a waiting arrival is served before a displaced student.
FromDisplaced_ArrivalsFirst == Len(students_to_process) = 0

\* "if displaced_students_queue:" the displaced student is served first.
FromDisplaced == Len(displaced_students_queue) > 0
Current == IF FromDisplaced THEN Head(displaced_students_queue) ELSE Head(students_to_process)
current_student == Current[1]
current_preference == Current[2]
preferred_course == student_marks[current_student].prefs[current_preference]

\* Variant: the student is queued again two slots further.
AdvancePreference_Skip(k) == k + 2

\* Variant: the student is queued again for the same slot.
AdvancePreference_Same(k) == k

\* "current_preference + 1": the slot a student is queued for after a blank
\* slot or a rejection.
AdvancePreference(k) == k + 1

\* The bound of P7 on the calls of try_place; the loop's guard stops a run
\* that has gone past it.
AttemptBound == Cardinality(Students) * (num_preferences + Cardinality(Students))

\* Variant: the displaced student that is served stays in the queue.
DisplacedRest_NoPop == displaced_students_queue

\* Variant: the arrival that is served stays in its queue.
ArrivalsRest_NoPop == students_to_process

\* The two queues after the popleft.
DisplacedRest == IF FromDisplaced THEN Tail(displaced_students_queue) ELSE displaced_students_queue
ArrivalsRest == IF FromDisplaced THEN students_to_process ELSE Tail(students_to_process)

Attempt ==
    try_place_student_in_course(current_student, student_marks, preferred_course, course_data,
        PState(course_matches, student_course_assignment, group_capacity_tracker,
               unplaced_students))

\* Variant: among the cohort's students with the evicted student's Total,
\* any one may be the one evicted (a minimum taken over an unordered
\* collection).
Outcomes_AnyTiedIncumbent ==
    {Attempt} \cup
    { Outcome("Displaced", d, Attempt.reason, Attempt.cohort,
              AttachChallenger(
                  RemoveDisplaced(
                      PState(InitGroupKeys(course_matches,
                                 GroupCourses(course_data, course_data[preferred_course].group), 1),
                             student_course_assignment, group_capacity_tracker,
                             unplaced_students),
                      GroupCourses(course_data, course_data[preferred_course].group), 1, d),
                  current_student, preferred_course, d)) :
        d \in {e \in Range(Attempt.cohort) :
                  /\ Attempt.result = "Displaced"
                  /\ _total_score(student_marks, e)
                        = _total_score(student_marks, Attempt.displaced)} }

\* What the call of try_place can return in the current state: the code
\* iterates lists and insertion-ordered dicts only, so one outcome.
Outcomes == {Attempt}

Note(kind, out) ==
    [kind |-> kind, student |-> current_student, pref |-> current_preference,
     course |-> preferred_course, displaced |-> out.displaced, reason |-> out.reason,
     cohort |-> out.cohort]

\* Variant: the loop appends the student without removing them first.
ReplaceAfterTrue_NoRemove(st, student, course) ==
    [st EXCEPT !.cm = DictPut(st.cm, course, Append(DictGet(st.cm, course, <<>>), student)),
               !.sca = DictPut(st.sca, student, course)]

\* "if result is True": the student try_place has just placed is removed
\* from the course recorded for them and appended again.
ReplaceAfterTrue(st, student, course) ==
    LET prior_course == st.sca[student]
        cm1 == IF student \in DOMAIN st.sca
               THEN DictPut(st.cm, prior_course, ListRemove(st.cm[prior_course], student))
               ELSE st.cm
    IN  [st EXCEPT !.cm = DictPut(cm1, course, Append(DictGet(cm1, course, <<>>), student)),
                   !.sca = DictPut(st.sca, student, course)]

Install(st) ==
    /\ course_matches' = st.cm
    /\ student_course_assignment' = st.sca
    /\ group_capacity_tracker' = st.gct
    /\ unplaced_students' = st.unp

\* The three branches of an iteration: the exhausted student, the blank
\* slot, the call of try_place (Tries).
PastLastPreference == Running /\ current_preference > num_preferences

AtBlankSlot ==
    /\ Running
    /\ current_preference <= num_preferences
    /\ preferred_course = Blank

Exhausted ==
    /\ PastLastPreference
    /\ preference_tracker' = DictPut(preference_tracker, current_student, current_preference)
    /\ unplaced_students' = Append(unplaced_students, current_student)
    /\ displaced_students_queue' = DisplacedRest
    /\ students_to_process' = ArrivalsRest
    /\ last' = [Idle EXCEPT !.kind = "exhausted", !.student = current_student,
                            !.pref = current_preference]
    /\ UNCHANGED <<inputs, course_matches, student_course_assignment,
                   group_capacity_tracker, attempts>>

BlankPreference ==
    /\ AtBlankSlot
    /\ preference_tracker' = DictPut(preference_tracker, current_student, current_preference)
    /\ displaced_students_queue' = DisplacedRest
    /\ students_to_process' = Append(ArrivalsRest, <<current_student, AdvancePreference(current_preference)>>)
    /\ last' = [Idle EXCEPT !.kind = "blank", !.student = current_student,
                            !.pref = current_preference]
    /\ UNCHANGED <<inputs, placement, attempts>>

Tries ==
    /\ Running
    /\ attempts <= AttemptBound
    /\ current_preference <= num_preferences
    /\ preferred_course # Blank

Placed ==
    /\ Tries
    /\ \E out \in Outcomes :
          /\ out.result = "True"
          /\ Install(ReplaceAfterTrue(out.st, current_student, preferred_course))
          /\ last' = Note("placed", out)
    /\ preference_tracker' = DictPut(preference_tracker, current_student, current_preference)
    /\ displaced_students_queue' = DisplacedRest
    /\ students_to_process' = ArrivalsRest
    /\ attempts' = attempts + 1
    /\ UNCHANGED inputs

\* Variant: the displaced student starts again from the first preference.
next_preference_Restart(tracker, displaced_student) == 1

\* Variant: the displaced student skips a preference.
next_preference_SkipOne(tracker, displaced_student) == tracker[displaced_student] + 2

\* "next_preference = preference_tracker[displaced_student] + 1"
next_preference(tracker, displaced_student) == tracker[displaced_student] + 1

\* The displaced student is queued at next_preference, read after the
\* tracker has been updated for the current student.
Displaced ==
    /\ Tries
    /\ \E out \in Outcomes :
          /\ out.result = "Displaced"
          /\ Install(out.st)
          /\ last' = Note("displaced", out)
          /\ displaced_students_queue' =
                 Append(DisplacedRest,
                        <<out.displaced,
                          next_preference(DictPut(preference_tracker, current_student,
                                                  current_preference),
                                          out.displaced)>>)
    /\ preference_tracker' = DictPut(preference_tracker, current_student, current_preference)
    /\ students_to_process' = ArrivalsRest
    /\ attempts' = attempts + 1
    /\ UNCHANGED inputs

Rejected ==
    /\ Tries
    /\ \E out \in Outcomes :
          /\ out.result = "False"
          /\ Install(out.st)
          /\ last' = Note("rejected", out)
    /\ preference_tracker' = DictPut(preference_tracker, current_student, current_preference)
    /\ displaced_students_queue' = DisplacedRest
    /\ students_to_process' = Append(ArrivalsRest, <<current_student, AdvancePreference(current_preference)>>)
    /\ attempts' = attempts + 1
    /\ UNCHANGED inputs

Next == Exhausted \/ BlankPreference \/ Placed \/ Displaced \/ Rejected

Spec == Init /\ [][Next]_vars

\* The loop is a sequential program: an iteration that can run does run.
\* Termination is checked on the runs whose students all have numeric
\* scores and whose course X has a capacity.
LiveInit ==
    /\ Init
    /\ course_data["X"].capacity # Unbounded
    /\ \A s \in Students : /\ student_marks[s].scores["Math"] = Num(1)
                           /\ student_marks[s].total # None

FairSpec == LiveInit /\ [][Next]_vars /\ WF_vars(Next)

(***************************************************************************)
(* The same loop on inputs that exercise the subject criteria: two subject *)
(* columns, a Math cell that is a number, a numeric string, a marker, a    *)
(* blank or a column the sheet does not have, and a course X whose         *)
(* criteria use either comparator.                                         *)
(***************************************************************************)
MathCells == {None, Text, NumStr(MaxScore)} \cup {Num(n) : n \in 1..MaxScore}
SciCells == {Text, Num(1)}

CriteriaScoreMaps ==
    { [subj \in {"Math", "Sci"} |-> IF subj = "Math" THEN m ELSE c] :
        m \in MathCells, c \in SciCells }
    \cup { [subj \in {"Sci"} |-> c] : c \in SciCells }

CriteriaRows ==
    { [total |-> Num(t), scores |-> sc, prefs |-> <<"X", "Y", Blank>>] :
        t \in {1, MaxScore}, sc \in CriteriaScoreMaps }

LastRow ==
    [total |-> Num(MaxScore),
     scores |-> [subj \in {"Math", "Sci"} |-> Num(1)],
     prefs |-> <<"Y", "X", UnknownCourse>>]

CriteriaLists ==
    { << <<"Math", cmp, Num(thr)>> >> \o extra :
        cmp \in {">=", "<="}, thr \in {1, MaxScore},
        extra \in { <<>>, << <<"Sci", ">=", Num(1)>> >> } }

CriteriaCatalogs ==
    { [c \in Courses |->
          IF c = "X" THEN CourseRow(shape[1], shape[2], 1, crits, <<>>)
                     ELSE CourseRow(Unbounded, shape[2], 1, <<>>, <<>>)] :
        shape \in { <<1, NoGroup>>, <<Unbounded, NoGroup>>, <<Unbounded, "G">> },
        crits \in CriteriaLists }

CriteriaInit ==
    /\ student_marks \in { [s \in Students |->
                               IF s = "A" THEN a ELSE IF s = "B" THEN b ELSE LastRow] :
                             a \in CriteriaRows, b \in CriteriaRows }
    /\ course_data \in CriteriaCatalogs
    /\ course_matches = EmptyDict
    /\ student_course_assignment = EmptyDict
    /\ group_capacity_tracker = EmptyDict
    /\ unplaced_students = <<>>
    /\ displaced_students_queue = <<>>
    /\ students_to_process = [i \in 1..Len(StudentOrder) |-> <<StudentOrder[i], 1>>]
    /\ preference_tracker = EmptyDict
    /\ last = Idle
    /\ attempts = 0

CriteriaSpec == CriteriaInit /\ [][Next]_vars

(***************************************************************************)
(* try_place_student_in_course called on its own: the call takes any       *)
(* student and any course name, on a placement state in which students may *)
(* already hold places.  The states it starts from keep the two maps        *)
(* consistent and respect criteria, capacities and group quotas.           *)
(***************************************************************************)
CallRows ==
    { [total |-> t, scores |-> [subj \in Subjects |-> m], prefs |-> <<"X", "Y", Blank>>] :
        t \in TotalCells, m \in ScoreCells }

Holdings == [Students -> Courses \cup {Blank}]

HeldIn(holding, c) == SelectSeq(StudentOrder, LAMBDA s : holding[s] = c)

MatchesOf(holding) ==
    [c \in {d \in Courses : Len(HeldIn(holding, d)) > 0} |-> HeldIn(holding, c)]

AssignmentOf(holding) ==
    [s \in {t \in Students : holding[t] # Blank} |-> holding[s]]

Admissible(marks, cdata, holding) ==
    \A c \in Courses :
        /\ \A i \in 1..Len(HeldIn(holding, c)) : MeetsCriteria(marks, HeldIn(holding, c)[i], cdata[c])
        /\ (cdata[c].group = NoGroup /\ cdata[c].capacity # Unbounded)
              => Len(HeldIn(holding, c)) <= cdata[c].capacity
        /\ (cdata[c].group # NoGroup /\ cdata[c].group_constraint # NoLimit)
              => Len(AllGroupStudents(MatchesOf(holding),
                                      GroupCourses(cdata, cdata[c].group), 1))
                     <= cdata[c].group_constraint

CallInit ==
    /\ student_marks \in [Students -> CallRows]
    /\ course_data \in Catalogs
    /\ \E holding \in Holdings :
          /\ Admissible(student_marks, course_data, holding)
          /\ course_matches = MatchesOf(holding)
          /\ student_course_assignment = AssignmentOf(holding)
    /\ group_capacity_tracker = EmptyDict
    /\ unplaced_students = <<>>
    /\ displaced_students_queue = <<>>
    /\ students_to_process = <<>>
    /\ preference_tracker = EmptyDict
    /\ last = Idle
    /\ attempts = 0

\* One call: what the three return values of try_place are to a caller.
KindOf(out) ==
    IF out.result = "True" THEN "placed"
    ELSE IF out.result = "Displaced" THEN "displaced" ELSE "rejected"

Call ==
    /\ attempts = 0
    /\ \E student_name \in Students, course \in Courses \cup {UnknownCourse} :
          \E out \in {try_place_student_in_course(student_name, student_marks, course,
                           course_data,
                           PState(course_matches, student_course_assignment,
                                  group_capacity_tracker, unplaced_students))} :
              /\ Install(out.st)
              /\ last' = [kind |-> KindOf(out), student |-> student_name, pref |-> 0,
                          course |-> course, displaced |-> out.displaced,
                          reason |-> out.reason, cohort |-> out.cohort]
    /\ attempts' = attempts + 1
    /\ UNCHANGED <<inputs, displaced_students_queue, students_to_process,
                   preference_tracker>>

CallSpec == CallInit /\ [][Call]_vars


(***************************************************************************)
(* The unplaced table of run_matching_core and                             *)
(* create_unplaced_students_report: one row, in order, for every entry of  *)
(* the unplaced list whose student has no assignment and has marks.        *)
(***************************************************************************)
unplaced_students_list(unplaced, assignment, marks) ==
    SelectSeq(unplaced, LAMBDA student : /\ student \notin DOMAIN assignment
                                         /\ student \in DOMAIN marks)

(***************************************************************************)
(* The course summary of run_matching_core and create_course_report.  The  *)
(* last ranked student is min(assigned_students, key = raw Total Score):   *)
(* the key is the cell itself, a float, and a blank cell is the float NaN  *)
(* (a Total that is text makes the comparison raise; the inputs of this    *)
(* model have none).                                                       *)
(***************************************************************************)
NotApplicable == "N/A"

RawTotal(marks, student) ==
    IF marks[student].total.k = "num" THEN marks[student].total.v ELSE NaN

RECURSIVE MinRawFrom(_, _, _, _)
MinRawFrom(marks, seq, i, cur) ==
    IF i > Len(seq) THEN cur
    ELSE IF FLess(RawTotal(marks, seq[i]), RawTotal(marks, cur))
         THEN MinRawFrom(marks, seq, i + 1, seq[i])
         ELSE MinRawFrom(marks, seq, i + 1, cur)

last_ranked_student(marks, assigned_students) ==
    IF Len(assigned_students) > 0
    THEN MinRawFrom(marks, assigned_students, 2, assigned_students[1])
    ELSE NotApplicable

(***************************************************************************)
(* run_matching_core builds three tables from the terminal state and       *)
(* returns them under the keys results_df, course_report_df and            *)
(* unplaced_students_df; run_matching of app.py reads the keys students,   *)
(* course_report and unplaced of that result, each with the default [].    *)
(* A table is the sequence of its rows; the placed-students table lists    *)
(* the courses in catalog order.                                           *)
(***************************************************************************)
RECURSIVE student_assignments(_, _)
student_assignments(cm, i) ==
    IF i > Len(CourseOrder) THEN <<>>
    ELSE [k \in 1..Len(DictGet(cm, CourseOrder[i], <<>>)) |->
             [student |-> DictGet(cm, CourseOrder[i], <<>>)[k], course |-> CourseOrder[i]]]
         \o student_assignments(cm, i + 1)

course_report_rows(cdata, cm, marks) ==
    [i \in 1..Len(CourseOrder) |->
        [course |-> CourseOrder[i],
         posted |-> Len(DictGet(cm, CourseOrder[i], <<>>)),
         last_ranked |-> last_ranked_student(marks, DictGet(cm, CourseOrder[i], <<>>))]]

run_matching_core(marks, cdata, cm, unplaced, assignment) ==
    [key \in {"results_df", "course_report_df", "unplaced_students_df"} |->
        IF key = "results_df" THEN student_assignments(cm, 1)
        ELSE IF key = "course_report_df" THEN course_report_rows(cdata, cm, marks)
        ELSE unplaced_students_list(unplaced, assignment, marks)]

\* The students, course_report and unplaced entries of the response.
run_matching(result) ==
    [students |-> DictGet(result, "students", <<>>),
     course_report |-> DictGet(result, "course_report", <<>>),
     unplaced |-> DictGet(result, "unplaced", <<>>)]

(***************************************************************************)
(* Vocabulary of the properties.                                           *)
(***************************************************************************)
Assigned(c) == DictGet(course_matches, c, <<>>)
IsPlaced(s) == \E c \in Courses : Contains(Assigned(c), s)
Grouped(c) == course_data[c].group # NoGroup
Cohort(c) ==
    IF Grouped(c)
    THEN AllGroupStudents(course_matches, GroupCourses(course_data, course_data[c].group), 1)
    ELSE Assigned(c)
Total(s) == _to_num(student_marks[s].total)
Called == last.kind \in {"placed", "displaced", "rejected"}

\* A criterion holds on a numeric score only: the student has the subject,
\* the cell is a number or spells one, and the comparison holds on it.
Satisfies(s, c) ==
    \A i \in 1..Len(course_data[c].subject_criteria) :
        LET crit == course_data[c].subject_criteria[i]
        IN  /\ crit[1] \in DOMAIN student_marks[s].scores
            /\ student_marks[s].scores[crit[1]].k \in {"num", "numstr"}
            /\ \/ crit[2] = ">=" /\ student_marks[s].scores[crit[1]].v >= crit[3].v
               \/ crit[2] = "<=" /\ student_marks[s].scores[crit[1]].v <= crit[3].v

\* s outranks d for course c: a higher Total, or the same Total and a
\* strictly greater tuple over c's tiebreaker subjects.
Outranks(s, d, c) ==
    \/ FGreater(Total(s), Total(d))
    \/ /\ FEqual(Total(s), Total(d))
       /\ TupleGreater(TieTuple(student_marks, s, course_data[c].tiebreaker_subjects),
                       TieTuple(student_marks, d, course_data[c].tiebreaker_subjects))

\* C1: every course with a bounded capacity, grouped or not, holds at most
\* `capacity` students.
C1_CapacityRespected ==
    \A c \in Courses :
        course_data[c].capacity # Unbounded => Len(Assigned(c)) <= course_data[c].capacity

\* C2: the students assigned across the courses of a group never exceed the
\* group's quota; a direct placement into a grouped course found the group
\* below its quota, and a displacement swapped exactly one incumbent of the
\* cohort for the challenger.
C2_GroupQuota ==
    /\ \A c \in Courses :
          (Grouped(c) /\ course_data[c].group_constraint # NoLimit)
              => Len(Cohort(c)) <= course_data[c].group_constraint
    /\ (last.kind = "placed" /\ Grouped(last.course)
            /\ course_data[last.course].group_constraint # NoLimit)
          => Len(last.cohort) < course_data[last.course].group_constraint
    /\ last.kind = "displaced"
          => /\ last.displaced \in Range(last.cohort)
             /\ last.student \notin Range(last.cohort)
             /\ Range(Cohort(last.course)) = (Range(last.cohort) \ {last.displaced}) \cup {last.student}
             /\ Len(Cohort(last.course)) = Len(last.cohort)

C2_Witness ==
    /\ last.kind = "displaced"
    /\ Len(Cohort(last.course)) = course_data[last.course].group_constraint
    /\ Len(last.cohort) = 2

\* C3: at every iteration boundary no student occurs twice in the
\* concatenation of all course lists.
AllAssigned == AllGroupStudents(course_matches, CourseOrder, 1)

C3_NoStudentTwice ==
    \A i, j \in 1..Len(AllAssigned) : AllAssigned[i] = AllAssigned[j] => i = j

C3_Witness ==
    /\ last.kind = "placed"
    /\ Contains(Assigned(last.course), last.student)
    /\ Len(AllAssigned) >= 2

\* C4: every assigned student satisfies every subject criterion of their
\* course, on a numeric score.
C4_Eligibility ==
    \A c \in Courses : \A s \in Range(Assigned(c)) : Satisfies(s, c)

C4_Witness ==
    /\ last.kind = "displaced"
    /\ Len(course_data[last.course].subject_criteria) > 0
    /\ \E s \in Students : ~Satisfies(s, last.course) /\ IsPlaced(s)

\* C5: whenever try_place returns a displaced student d for challenger s and
\* course c, s outranks d (higher Total, or equal Total and a strictly
\* greater tiebreak tuple) and s is assigned to c.
C5_DisplacementOutranks ==
    last.kind = "displaced"
        => /\ Outranks(last.student, last.displaced, last.course)
           /\ Contains(Assigned(last.course), last.student)


\* The slot through which a placed student holds their course.
PlacedSlot(s) == preference_tracker[s]

AtCapacity(c) ==
    course_data[c].capacity # Unbounded /\ Len(Assigned(c)) >= course_data[c].capacity

AtQuota(c) ==
    /\ Grouped(c)
    /\ course_data[c].group_constraint # NoLimit
    /\ Len(Cohort(c)) >= course_data[c].group_constraint

C7_UnplacedIffNotAssigned ==
    Done => \A s \in Students : Contains(unplaced_students, s) <=> ~IsPlaced(s)

\* C8: the loop terminates, and try_place is called at most
\* |students| * (P + |students|) times.
C8_Termination == <>Done /\ [](attempts <= AttemptBound)

C8_Witness == Done /\ attempts >= 2 * Cardinality(Students) /\ last.kind = "exhausted"

\* C9: a call of try_place that rejects leaves every course's list, the
\* student -> course map and the unplaced list as they were.
C9_RejectLeavesState ==
    [][(last'.kind = "rejected" /\ attempts' = attempts + 1)
          => /\ \A c \in Courses \cup {UnknownCourse} :
                    DictGet(course_matches', c, <<>>) = DictGet(course_matches, c, <<>>)
             /\ student_course_assignment' = student_course_assignment
             /\ unplaced_students' = unplaced_students]_vars

C9_Witness ==
    /\ last.kind = "rejected"
    /\ Len(last.cohort) > 0
    /\ Len(unplaced_students) > 0

\* C10: when a group is at quota and its cohort holds a student whose Total
\* Score is missing, a challenger with a numeric Total displaces a student
\* with a missing Total.
C10_MissingTotalEvictedFirst ==
    ( /\ Called
      /\ last.course \in Courses
      /\ Grouped(last.course)
      /\ course_data[last.course].group_constraint # NoLimit
      /\ Len(last.cohort) >= course_data[last.course].group_constraint
      /\ ~IsNaN(Total(last.student))
      /\ \E d \in Range(last.cohort) : IsNaN(Total(d)) )
        => /\ last.kind = "displaced"
           /\ IsNaN(Total(last.displaced))

\* C11: the criteria check of try_place is fail-closed.  A call on a catalog
\* course is turned away by the criteria check iff the student does not
\* hold every criterion on a numeric score; a score that is absent from the
\* score map, blank or a text marker rejects the student under either
\* comparator and whatever the capacity, and the student is not listed in
\* the course.
C11_FailClosed ==
    (Called /\ last.course \in Courses)
        => /\ (last.reason = "criteria") <=> ~Satisfies(last.student, last.course)
           /\ ~Satisfies(last.student, last.course)
                 => /\ last.kind = "rejected"
                    /\ ~Contains(Assigned(last.course), last.student)

C11_Witness ==
    /\ last.kind = "rejected"
    /\ last.reason = "criteria"
    /\ last.course = "X"
    /\ "Math" \notin DOMAIN student_marks[last.student].scores
    /\ course_data["X"].subject_criteria[1][2] = "<="
    /\ course_data["X"].capacity = Unbounded
    /\ ~Grouped("X")
    /\ Len(Assigned("X")) = 0

\* A call of try_place that found the group of its course at quota.
FullGroupCall ==
    /\ Called
    /\ last.course \in Courses
    /\ Grouped(last.course)
    /\ course_data[last.course].group_constraint # NoLimit
    /\ Len(last.cohort) > 0
    /\ Len(last.cohort) >= course_data[last.course].group_constraint

\* The incumbents of the call's cohort that share its lowest Total Score.
TiedLowest ==
    {d \in Range(last.cohort) : \A e \in Range(last.cohort) : Total(d) <= Total(e)}

ChallengerTies ==
    /\ FullGroupCall
    /\ \A d \in Range(last.cohort) : ~IsNaN(Total(d))
    /\ \E d \in TiedLowest : FEqual(Total(last.student), Total(d))

TieTupleFor(s) == TieTuple(student_marks, s, course_data[last.course].tiebreaker_subjects)

\* C12: when the challenger's Total equals the Total of the selected
\* incumbent of a full group (the cohort's lowest Total), a course without
\* tiebreaker subjects rejects the challenger and every incumbent stays; a
\* course with tiebreaker subjects lets the challenger displace an incumbent
\* of that lowest Total whose tiebreak tuple is strictly smaller than the
\* challenger's, and rejects the challenger only when no incumbent of the
\* lowest Total has a strictly smaller tuple.
C12_TieRule ==
    ChallengerTies
        => IF Len(course_data[last.course].tiebreaker_subjects) = 0
           THEN /\ last.kind = "rejected"
                /\ Range(Cohort(last.course)) = Range(last.cohort)
           ELSE /\ last.kind \in {"displaced", "rejected"}
                /\ last.kind = "displaced"
                      => /\ last.displaced \in TiedLowest
                         /\ TupleGreater(TieTupleFor(last.student), TieTupleFor(last.displaced))
                /\ last.kind = "rejected"
                      => \A d \in TiedLowest :
                             ~TupleGreater(TieTupleFor(last.student), TieTupleFor(d))

\* C13: an ungrouped course's capacity is a hard cap without displacement.
\* In every loop iteration the list of an ungrouped course either gains the
\* attempting student at its end, which happens exactly when the student
\* meets the criteria and the course holds fewer than `capacity` students,
\* or stays as it was and the attempt is rejected: a full course rejects
\* every challenger and loses no incumbent, and its list is the first
\* `capacity` qualifying students to attempt it, in order.
C13_HardCapNoDisplacement ==
    [][\A c \in Courses : ~Grouped(c) =>
          IF /\ last'.kind \in {"placed", "displaced", "rejected"}
             /\ last'.course = c
             /\ Satisfies(last'.student, c)
             /\ ~AtCapacity(c)
          THEN /\ last'.kind = "placed"
               /\ ~Contains(Assigned(c), last'.student)
               /\ DictGet(course_matches', c, <<>>) = Append(Assigned(c), last'.student)
          ELSE /\ DictGet(course_matches', c, <<>>) = Assigned(c)
               /\ (last'.kind \in {"placed", "displaced", "rejected"} /\ last'.course = c)
                     => last'.kind = "rejected"]_vars

C13_Witness ==
    /\ last.kind = "rejected"
    /\ last.reason = "course full"
    /\ ~Grouped(last.course)
    /\ Len(Assigned(last.course)) = course_data[last.course].capacity
    /\ \A d \in Range(Assigned(last.course)) : FGreater(Total(last.student), Total(d))

\* What an iteration that calls try_place does with an outcome of the call.
Settled(out) ==
    IF out.result = "True"
    THEN ReplaceAfterTrue(out.st, current_student, preferred_course)
    ELSE out.st

BranchesOpen ==
    {k \in 1..3 : \/ k = 1 /\ PastLastPreference
                  \/ k = 2 /\ AtBlankSlot
                  \/ k = 3 /\ Tries}

UnplacedTable ==
    unplaced_students_list(unplaced_students, student_course_assignment, student_marks)

\* C15: the unplaced table built from the terminal state has exactly one
\* row per student who is in the returned unplaced collection and not in
\* the final assignment; no student has two rows.
C15_OneRowPerUnplaced ==
    Done =>
        /\ Range(UnplacedTable)
              = {s \in Range(unplaced_students) : s \notin DOMAIN student_course_assignment}
        /\ \A i, j \in 1..Len(UnplacedTable) : UnplacedTable[i] = UnplacedTable[j] => i = j

\* C16: when a group is at quota and a challenger evicts an incumbent, the
\* evicted student has the cohort's lowest Total Score and, among the
\* incumbents sharing that Total, the smallest tuple of scores over the
\* tiebreaker subjects of the challenger's course; this holds also when the
\* challenger's Total is strictly greater than that lowest Total.
C16_EvictsSmallestTuple ==
    ( /\ FullGroupCall
      /\ last.kind = "displaced"
      /\ \A d \in Range(last.cohort) : ~IsNaN(Total(d)) )
        => /\ last.displaced \in TiedLowest
           /\ \A d \in TiedLowest :
                  ~TupleLess(TieTupleFor(d), TieTupleFor(last.displaced))

\* The course that lists s, for a student who is placed.
CourseOf(s) == CHOOSE c \in Courses : Contains(Assigned(c), s)

\* C17: a displaced student d is appended to the displaced queue at the
\* index one past the slot through which d obtained the placement just
\* lost, and preference_tracker[d] is that slot at the moment of the
\* displacement.  A student who becomes placed is recorded at the slot just
\* dequeued, which names the course; the record does not change while the
\* student stays placed; at a displacement the evicted student's record
\* still names the course they are evicted from, and the queue receives
\* (d, record + 1).
C17_RequeuedPastHoldingSlot ==
    [][/\ \A s \in Students :
             /\ (~IsPlaced(s) /\ IsPlaced(s)')
                   => /\ s = last'.student
                      /\ preference_tracker'[s] = last'.pref
                      /\ student_marks[s].prefs[last'.pref] = CourseOf(s)'
             /\ (IsPlaced(s) /\ IsPlaced(s)')
                   => /\ preference_tracker'[s] = preference_tracker[s]
                      /\ CourseOf(s)' = CourseOf(s)
       /\ \A d \in Students :
             (last'.kind = "displaced" /\ last'.displaced = d)
                => /\ IsPlaced(d)
                   /\ ~IsPlaced(d)'
                   /\ student_marks[d].prefs[preference_tracker[d]] = CourseOf(d)
                   /\ displaced_students_queue'[Len(displaced_students_queue')]
                         = <<d, preference_tracker[d] + 1>>]_vars

C17_Witness ==
    /\ last.kind = "displaced"
    /\ Len(displaced_students_queue) = 1
    /\ displaced_students_queue[1] = <<last.displaced, 3>>
    /\ preference_tracker[last.displaced] = 2

\* C18: at every iteration boundary the course recorded for a placed
\* student s is the course named at slot preference_tracker[s] and lists s.
\* A student is dequeued only while not placed, at slot 1 first and then at
\* the slot after the one last dequeued, so every earlier slot has been
\* dequeued and none of them still holds the student.  A placed student
\* stays in the same course until a displacement evicts them.
C18_PlacedAtTrackedSlot ==
    [][\A s \in Students :
          /\ IsPlaced(s)'
                => /\ s \in DOMAIN student_course_assignment'
                   /\ s \in DOMAIN preference_tracker'
                   /\ student_course_assignment'[s]
                         = student_marks[s].prefs[preference_tracker'[s]]
                   /\ Contains(DictGet(course_matches', student_course_assignment'[s], <<>>), s)
                   /\ \A j \in 1..(preference_tracker'[s] - 1) :
                          ~Contains(DictGet(course_matches', student_marks[s].prefs[j], <<>>), s)
          /\ s = last'.student
                => /\ ~IsPlaced(s)
                   /\ last'.pref = IF s \in DOMAIN preference_tracker
                                    THEN preference_tracker[s] + 1 ELSE 1
          /\ IsPlaced(s)
                => \/ IsPlaced(s)' /\ CourseOf(s)' = CourseOf(s)
                   \/ /\ last'.kind = "displaced"
                      /\ last'.displaced = s
                      /\ ~IsPlaced(s)']_vars

C18_Witness ==
    /\ \E s \in Students :
          /\ IsPlaced(s)
          /\ preference_tracker[s] = 3
    /\ \E s \in Students : IsPlaced(s) /\ preference_tracker[s] = 1
    /\ Len(unplaced_students) > 0
    /\ Done

IsPrefix(a, b) == Len(a) <= Len(b) /\ SubSeq(b, 1, Len(a)) = a

\* C19: displaced students take absolute priority.  An iteration that
\* starts with a displaced student queued serves the head of the displaced
\* queue and removes nothing from the arrivals queue; an arrival is dequeued
\* only when the displaced queue is empty.  The displaced queue never holds
\* more than one entry, so the student displaced in one iteration is the
\* student of the next.
C19_DisplacedFirst ==
    [][/\ Len(displaced_students_queue) <= 1
       /\ Len(displaced_students_queue) > 0
             => /\ last'.student = Head(displaced_students_queue)[1]
                /\ last'.pref = Head(displaced_students_queue)[2]
                /\ IsPrefix(students_to_process, students_to_process')
       /\ Len(displaced_students_queue) = 0
             => /\ last'.student = Head(students_to_process)[1]
                /\ IsPrefix(Tail(students_to_process), students_to_process')
       /\ last.kind = "displaced" => last'.student = last.displaced]_vars

C19_Witness ==
    /\ Called
    /\ Contains(unplaced_students, last.student)
    /\ last.pref = 2
    /\ Len(students_to_process) > 0
    /\ students_to_process[1][2] = 1
    /\ Len(displaced_students_queue) = 0

\* C20: a slot that is blank or names a course outside the catalog is not
\* fatal.  The iteration changes no placement state (course lists,
\* assignment map, group tracker, unplaced list) and appends the student to
\* the arrivals queue at the next index; the run still terminates, and at
\* termination a student who is in no course is in the unplaced list.
C20_UnknownOrBlankSkipped ==
    /\ [][(\/ last'.kind = "blank"
           \/ last'.kind = "rejected" /\ last'.course \notin Courses)
             => /\ UNCHANGED placement
                /\ Len(students_to_process') > 0
                /\ students_to_process'[Len(students_to_process')]
                      = <<last'.student, last'.pref + 1>>
                /\ Len(displaced_students_queue') <= Len(displaced_students_queue)]_vars
    /\ <>Done
    /\ [](Done => \A s \in Students : ~IsPlaced(s) => Contains(unplaced_students, s))

C20_Witness ==
    /\ Done
    /\ \E s \in Students :
          /\ ~IsPlaced(s)
          /\ student_marks[s].prefs[3] = UnknownCourse
          /\ preference_tracker[s] = num_preferences + 1
          /\ Contains(unplaced_students, s)
    /\ \E s \in Students :
          /\ IsPlaced(s)
          /\ student_marks[s].prefs[1] = Blank

\* C21: a challenger whose Total Score is missing or not numeric never
\* displaces anyone.  A call of try_place for such a student is never a
\* displacement, and when the group of the course is at quota the call is
\* rejected and the cohort is left exactly as it was, whatever the
\* incumbents' scores.
C21_MissingTotalNeverDisplaces ==
    (Called /\ IsNaN(Total(last.student)))
        => /\ last.kind # "displaced"
           /\ FullGroupCall
                 => /\ last.kind = "rejected"
                    /\ Cohort(last.course) = last.cohort

C21_Witness ==
    /\ FullGroupCall
    /\ IsNaN(Total(last.student))
    /\ last.reason = "candidate total not numeric"
    /\ \E d \in Range(last.cohort) : IsNaN(Total(d))
    /\ \E d \in Range(last.cohort) : ~IsNaN(Total(d))

\* The number of times a course list names a student.
Occurrences(seq, x) == Cardinality({i \in 1..Len(seq) : seq[i] = x})

\* C22: a call of try_place for a student who holds a place.  If the student
\* is assigned to a different course and the call ends with the student
\* placed (directly or by displacement), the student is afterwards listed
\* once in the new course and in no other, and student_course_assignment
\* maps them to it; if the call is for the course the student already
\* holds, that course does not list them twice afterwards.
C22_IdempotentDetach ==
    [][\A s \in Students :
          (s = last'.student /\ s \in DOMAIN student_course_assignment
                /\ last'.course \in Courses)
             => /\ (student_course_assignment[s] # last'.course
                       /\ last'.kind \in {"placed", "displaced"})
                      => /\ \A c \in Courses :
                                Occurrences(DictGet(course_matches', c, <<>>), s)
                                    = IF c = last'.course THEN 1 ELSE 0
                         /\ s \in DOMAIN student_course_assignment'
                         /\ student_course_assignment'[s] = last'.course
                /\ student_course_assignment[s] = last'.course
                      => Occurrences(DictGet(course_matches', last'.course, <<>>), s) <= 1]_vars

\* C23: a call of try_place for a student who is already placed in a course
\* of a full group and who is the cohort's selected lowest-Total incumbent
\* is rejected with the state unchanged: the student is not evicted by
\* their own attempt and no other cohort member is evicted in their place.
C23_NoSelfDisplacement ==
    [][\A s \in Students :
          ( /\ s = last'.student
            /\ last'.course \in Courses
            /\ Grouped(last'.course)
            /\ course_data[last'.course].group_constraint # NoLimit
            /\ Len(Cohort(last'.course)) >= course_data[last'.course].group_constraint
            /\ Contains(Cohort(last'.course), s)
            /\ MeetsCriteria(student_marks, s, course_data[last'.course])
            /\ s = LowestByTotal(student_marks, Cohort(last'.course)) )
             => /\ last'.kind = "rejected"
                /\ \A c \in Courses : DictGet(course_matches', c, <<>>) = Assigned(c)
                /\ UNCHANGED <<student_course_assignment, unplaced_students>>]_vars

\* C24: at every iteration boundary the two maps are mutual inverses:
\* student_course_assignment maps s to c iff the list of c names s, and the
\* map holds catalog courses only.
C24_MapsInverse ==
    /\ \A s \in Students, c \in Courses :
          (s \in DOMAIN student_course_assignment /\ student_course_assignment[s] = c)
              <=> Contains(Assigned(c), s)
    /\ \A s \in DOMAIN student_course_assignment :
          s \in Students /\ student_course_assignment[s] \in Courses
    /\ DOMAIN course_matches \subseteq Courses

C24_Witness ==
    /\ last.kind = "displaced"
    /\ last.reason = "tiebreak"
    /\ Cardinality(DOMAIN student_course_assignment) = 2
    /\ \E s \in Students : Contains(Assigned("Y"), s)
    /\ Contains(Assigned("X"), last.student)

LastRanked(c) == last_ranked_student(student_marks, Assigned(c))

\* A missing Total ranks below every number.
RankOfTotal(s) == IF IsNaN(Total(s)) THEN NegInf ELSE Total(s)

\* C25: in the course summary built from the terminal state, the last ranked
\* student of a course with at least one placed student is a placed student
\* of that course whose Total Score is the lowest, a missing Total counting
\* as lowest wherever the student stands in the list; for a course with no
\* placed student it is the sentinel "N/A".
C25_LastRankedIsLowest ==
    Done =>
        \A c \in Courses :
            IF Len(Assigned(c)) = 0
            THEN LastRanked(c) = NotApplicable
            ELSE /\ LastRanked(c) \in Range(Assigned(c))
                 /\ \A d \in Range(Assigned(c)) :
                        RankOfTotal(LastRanked(c)) <= RankOfTotal(d)

CoreResult ==
    run_matching_core(student_marks, course_data, course_matches, unplaced_students,
                      student_course_assignment)

Response == run_matching(CoreResult)

\* C26: the response of "run matching" carries the tables the core built
\* from the terminal state: its placed-students, course-summary and unplaced
\* lists are those tables, and the placed-students list is not empty when
\* the core placed a student.
C26_ResponseCarriesTables ==
    Done =>
        /\ Response.students = CoreResult["results_df"]
        /\ Response.course_report = CoreResult["course_report_df"]
        /\ Response.unplaced = CoreResult["unplaced_students_df"]
        /\ (\E s \in Students : IsPlaced(s)) => Len(Response.students) > 0

\* C27: the number of placed students never decreases from one iteration
\* boundary to the next: a placement adds one, a displacement removes one
\* and adds one, every other step changes nothing.  A group whose usage has
\* reached its quota keeps that usage, and an ungrouped course that is full
\* stays full.
C27_PlacementsMonotone ==
    [][/\ Len(AllAssigned') = Len(AllAssigned) + (IF last'.kind = "placed" THEN 1 ELSE 0)
       /\ \A c \in Courses :
             /\ (AtQuota(c) /\ Len(Cohort(c)) = course_data[c].group_constraint)
                   => Len(Cohort(c)') = course_data[c].group_constraint
             /\ (~Grouped(c) /\ AtCapacity(c))
                   => Len(DictGet(course_matches', c, <<>>)) >= course_data[c].capacity]_vars

C27_Witness ==
    /\ last.kind = "displaced"
    /\ ~Grouped("X")
    /\ AtCapacity("X")
    /\ AtQuota("Y")
    /\ Len(AllAssigned) = 2

\* The entries the two queues hold for a student.
QueueEntries(s) ==
    Cardinality({i \in 1..Len(students_to_process) : students_to_process[i][1] = s})
    + Cardinality({i \in 1..Len(displaced_students_queue) : displaced_students_queue[i][1] = s})

Finished(s) ==
    /\ s \in DOMAIN preference_tracker
    /\ preference_tracker[s] = num_preferences + 1
    /\ QueueEntries(s) = 0

ConditionsOf(s) ==
    {k \in 1..3 : \/ k = 1 /\ QueueEntries(s) = 1
                  \/ k = 2 /\ IsPlaced(s)
                  \/ k = 3 /\ Finished(s)}

\* C28: at every iteration boundary each student is in exactly one of three
\* conditions: queued, with exactly one entry across the two queues; placed
\* in a course; or finished, last dequeued at index P+1 and not queued.  The
\* student the next iteration serves is therefore not placed.
C28_QueuedPlacedOrFinished ==
    /\ \A s \in Students :
          /\ QueueEntries(s) <= 1
          /\ Cardinality(ConditionsOf(s)) = 1
    /\ Running => ~IsPlaced(current_student)

C28_Witness ==
    /\ \E s \in Students : ConditionsOf(s) = {1}
    /\ \E s \in Students : ConditionsOf(s) = {2}
    /\ \E s \in Students : ConditionsOf(s) = {3}
    /\ Len(displaced_students_queue) = 1

\* C29: the displaced queue never holds more than one entry; its length at
\* every iteration boundary is 0 or 1.
C29_DisplacedQueueAtMostOne == Len(displaced_students_queue) \in {0, 1}

C29_Witness ==
    /\ Len(displaced_students_queue) = 1
    /\ Len(students_to_process) >= 1
    /\ last.kind = "displaced"
    /\ last.pref >= 2

\* The index at which a student was last dequeued, 0 before the first time.
LastDequeued(s) == IF s \in DOMAIN preference_tracker THEN preference_tracker[s] ELSE 0

\* C30: for every student the indices at which the student is dequeued are
\* strictly increasing and never exceed P+1, whether the student was queued
\* again after a rejection, a blank slot or a displacement: each dequeue is
\* at an index above the last one, every queued entry carries such an index,
\* and no slot is served twice.
C30_DequeueIndicesIncrease ==
    [][/\ \A s \in Students :
             s = last'.student
                => /\ last'.pref > LastDequeued(s)
                   /\ last'.pref <= num_preferences + 1
                   /\ preference_tracker'[s] = last'.pref
       /\ \A s \in Students :
             /\ \A i \in 1..Len(students_to_process') :
                    students_to_process'[i][1] = s
                       => /\ students_to_process'[i][2] <= num_preferences + 1
                          /\ students_to_process'[i][2] > LastDequeued(s)'
             /\ \A i \in 1..Len(displaced_students_queue') :
                    displaced_students_queue'[i][1] = s
                       => /\ displaced_students_queue'[i][2] <= num_preferences + 1
                          /\ displaced_students_queue'[i][2] > LastDequeued(s)']_vars

C30_Witness ==
    /\ last.kind = "exhausted"
    /\ last.pref = num_preferences + 1
    /\ Occurrences(unplaced_students, last.student) = 2
    /\ Done

\* C31: the standalone helper student_meets_course_criteria gives, for the
\* student and the catalog course of every call, the verdict the criteria
\* check inside try_place gave: the call is turned away at the criteria
\* check iff the helper answers false.  In particular a student whose score
\* map has no entry for a criterion subject is rejected by both, under
\* either comparator.
C31_HelperAgreesWithInlinedCheck ==
    (Called /\ last.course \in Courses)
        => /\ (last.reason = "criteria")
                 <=> ~student_meets_course_criteria(last.student, student_marks,
                                                    last.course, course_data)
           /\ (\E i \in 1..Len(course_data[last.course].subject_criteria) :
                  course_data[last.course].subject_criteria[i][1]
                      \notin DOMAIN student_marks[last.student].scores)
                 => /\ last.reason = "criteria"
                    /\ ~student_meets_course_criteria(last.student, student_marks,
                                                      last.course, course_data)

====
